---- MODULE Spec2Model ----
(***************************************************************************)
(* Model of the marketing pipeline of main.py: a MarketingState dictionary  *)
(* is threaded through refresh_token, fetch_data, classify_data and         *)
(* generate_insights by the compiled graph, and run_marketing_agent returns *)
(* the final state (or lets an exception escape).                           *)
(*                                                                          *)
(* Python values are tagged records so that None, "" and "None" differ:     *)
(*   PyNone, Str(s), Lst(seq).                                              *)
(* JSON objects keyed by field names (response bodies, leads) are TLA+      *)
(* functions whose DOMAIN is the set of keys present.  Dictionaries the     *)
(* code builds (classified, classified_summary, the count maps) are         *)
(* sequences of [k, v] entries in insertion order, as a Python dict is.     *)
(***************************************************************************)
EXTENDS Integers, Sequences, FiniteSets, TLC

\* ---------------------------------------------------------------- bounds
\* Longest data list a CRM response carries in the model.
MaxRecords == 3

\* ---------------------------------------------------------------- values
PyNone == [tag |-> "none", val |-> ""]
Str(s) == [tag |-> "str", val |-> s]
Lst(s) == [tag |-> "list", val |-> s]

\* Python truthiness of None / str values (the `if x`, `x or y`, `not x` tests).
Truthy(v) == v.tag = "str" /\ v.val # ""

\* {} : the empty JSON object / empty dict / empty list.
EmptyDict == <<>>

\* obj.get(key, default) on a JSON object.
DictGet(obj, key, default) == IF key \in DOMAIN obj THEN obj[key] ELSE default

\* Operations on insertion-ordered dictionaries (sequences of [k, v]).
HasKey(d, key) == \E i \in 1..Len(d) : d[i].k = key

KeyIndex(d, key) == CHOOSE i \in 1..Len(d) : d[i].k = key

Lookup(d, key) == d[KeyIndex(d, key)].v

\* d[key] = value : overwrite in place, or append a new key at the end.
Put(d, key, value) ==
    IF HasKey(d, key)
    THEN [d EXCEPT ![KeyIndex(d, key)] = [k |-> key, v |-> value]]
    ELSE Append(d, [k |-> key, v |-> value])

Keys(d) == {d[i].k : i \in 1..Len(d)}

\* ---------------------------------------------------------------- inputs
\* A lead is a JSON object; no field is guaranteed present, and a field that
\* is present may be null.
SourceFields == {"Lead_Source", "Lead_Status"}

SourceValues == {PyNone, Str("Facebook"), Str("Unknown")}

StatusValues == {PyNone, Str("New")}

FieldValues(f) == IF f = "Lead_Source" THEN SourceValues ELSE StatusValues

\* Leads that carry only (a subset of) the lead source and the status.
PlainLeads ==
    UNION { {r \in [S -> SourceValues \cup StatusValues] :
                \A f \in S : r[f] \in FieldValues(f)} : S \in SUBSET SourceFields }

\* Leads that carry the campaign attribution fields too.
FullLead(disp, camp) ==
    [Lead_Source |-> Str("Facebook"), Lead_Status |-> Str("New"),
     Disposition |-> disp, Campaign |-> camp, Adset_Name |-> Str("A1"),
     Agency |-> Str("Ag"), Product |-> PyNone]

FullLeads ==
    {FullLead(Str("Hot"), Str("C1")), FullLead(PyNone, Str("C2")),
     FullLead(Str("Hot"), Str(""))}

Leads == PlainLeads \cup FullLeads

RECURSIVE SeqsUpTo(_, _)
SeqsUpTo(S, n) ==
    IF n = 0 THEN {<<>>}
    ELSE LET shorter == SeqsUpTo(S, n - 1)
         IN  shorter \cup {Append(s, x) : s \in {t \in shorter : Len(t) = n - 1}, x \in S}

RecordLists == SeqsUpTo(Leads, MaxRecords)

\* What requests.post(...) / raise_for_status() / response.json() can give:
\*   fault      - requests.post raises (network fault)
\*   http_error - raise_for_status raises (non-2xx)
\*   bad_json   - response.json() raises (body is not JSON)
\*   json       - a JSON object is returned
Failure(kind, exc) == [kind |-> kind, exc |-> exc, body |-> EmptyDict]

Json(body) == [kind |-> "json", exc |-> "", body |-> body]

Failures ==
    {Failure("fault", "Connection refused"),
     Failure("http_error", "401 Client Error"),
     Failure("bad_json", "Expecting value")}

TokenBodies ==
    {[error |-> Str("invalid_code")],
     [access_token |-> PyNone],
     [access_token |-> Str("")],
     [access_token |-> Str("tok1")],
     [access_token |-> Str("tok2")]}

TokenResponses == Failures \cup {Json(b) : b \in TokenBodies}

FetchBodies ==
    {EmptyDict, [data |-> PyNone]} \cup {[data |-> Lst(R)] : R \in RecordLists}

FetchResponses == Failures \cup {Json(b) : b \in FetchBodies}

\* llm.invoke(...) either raises or returns a message whose content is text.
LlmResponses ==
    {[kind |-> "raise", content |-> ""],
     [kind |-> "message", content |-> ""],
     [kind |-> "message", content |-> "# Report"]}

NoResponse == [kind |-> "none", exc |-> "", body |-> EmptyDict]

NoLlmResponse == [kind |-> "none", content |-> ""]

NoCalls == [token |-> 0, crm |-> 0, llm |-> 0]

\* ---------------------------------------------------------------- state
VARIABLES
    pc,               \* "idle", the node the graph runs next, "done" or "raised"
    access_token,     \* MarketingState fields
    raw_data,
    classified_data,
    insights,
    error,
    calls,            \* outbound calls issued in the current run
    token_response,   \* what the identity provider answered in this run
    fetch_response,   \* what the CRM answered in this run
    llm_response,     \* what the language model answered in this run
    classified_summary, \* generate_insights' local, as handed to json.dumps (PyNone: not built)
    entered,          \* the nodes the graph has run in the current run, in order
    consumer,         \* who called run_marketing_agent: "none", "cli" or "dashboard"
    shown,            \* what the consumer has put out in its current script run
    analysis_result,  \* st.session_state.analysis_result
    analysis_time     \* st.session_state.analysis_time

state == <<access_token, raw_data, classified_data, insights, error>>

env == <<calls, token_response, fetch_response, llm_response, classified_summary>>

session == <<consumer, shown, analysis_result, analysis_time>>

vars == <<pc, access_token, raw_data, classified_data, insights, error,
          calls, token_response, fetch_response, llm_response, classified_summary,
          entered, consumer, shown, analysis_result, analysis_time>>

\* ---------------------------------------------------------------- workflow
\* langgraph's END: the graph returns the state to run_marketing_agent.
END == "done"

\* workflow.set_entry_point("refresh_token")
EntryPoint == "refresh_token"

\* A graph whose fetch_data edge bypasses classify_data.
EdgeSkipsClassifier(node) ==
    CASE node = "refresh_token" -> "fetch_data"
      [] node = "fetch_data" -> "generate_insights"
      [] node = "classify_data" -> "generate_insights"
      [] node = "generate_insights" -> END

\* workflow.add_edge(node, successor): one unconditional edge per node.
Edge(node) ==
    CASE node = "refresh_token" -> "fetch_data"
      [] node = "fetch_data" -> "classify_data"
      [] node = "classify_data" -> "generate_insights"
      [] node = "generate_insights" -> END

\* ---------------------------------------------------------------- run_marketing_agent
Init ==
    /\ pc = "idle"
    /\ access_token = PyNone
    /\ raw_data = EmptyDict
    /\ classified_data = EmptyDict
    /\ insights = ""
    /\ error = PyNone
    /\ calls = NoCalls
    /\ token_response = NoResponse
    /\ fetch_response = NoResponse
    /\ llm_response = NoLlmResponse
    /\ classified_summary = PyNone
    /\ entered = <<>>
    /\ consumer = "none"
    /\ shown = <<>>
    /\ analysis_result = PyNone
    /\ analysis_time = PyNone

\* initial_state = MarketingState(...); graph.invoke(initial_state): a fresh
\* state enters the graph at its entry point.
StartRun ==
    /\ pc' = EntryPoint
    /\ access_token' = PyNone
    /\ raw_data' = EmptyDict
    /\ classified_data' = EmptyDict
    /\ insights' = ""
    /\ error' = PyNone
    /\ calls' = NoCalls
    /\ token_response' = NoResponse
    /\ fetch_response' = NoResponse
    /\ llm_response' = NoLlmResponse
    /\ classified_summary' = PyNone
    /\ entered' = <<>>

\* run_marketing_agent called on its own, any number of times: each call is a
\* fresh run.
RunMarketingAgent ==
    /\ pc \in {"idle", "done", "raised"}
    /\ StartRun
    /\ UNCHANGED session

\* ---------------------------------------------------------------- refresh_token
\* state["error"] = None if state["access_token"] else "No access token received"
RefreshError(token) ==
    IF Truthy(token) THEN PyNone ELSE Str("No access token received")

\* state["access_token"] = token_data.get("access_token")
ReceivedToken(token_data) == DictGet(token_data, "access_token", PyNone)

RefreshToken ==
    /\ pc = "refresh_token"
    /\ \E response \in TokenResponses :
        /\ token_response' = response
        /\ calls' = [calls EXCEPT !.token = @ + 1]
        /\ IF response.kind = "json"
           THEN /\ access_token' = ReceivedToken(response.body)
                /\ error' = RefreshError(ReceivedToken(response.body))
           ELSE /\ error' = Str("Token refresh failed: " \o response.exc)
                /\ access_token' = PyNone
    /\ pc' = Edge("refresh_token")
    /\ entered' = Append(entered, "refresh_token")
    /\ UNCHANGED session
    /\ UNCHANGED <<raw_data, classified_data, insights,
                   fetch_response, llm_response, classified_summary>>

\* ---------------------------------------------------------------- fetch_data
\* if state.get("error") or not state.get("access_token"):
FetchSkips(err, token) == Truthy(err) \/ ~Truthy(token)

\* A fetch_data whose guard always writes the default message.
FetchGuardErrorOverwrites(err) == Str("No valid access token")

\* state["error"] = state.get("error") or "No valid access token"
FetchGuardError(err) ==
    IF Truthy(err) THEN err ELSE Str("No valid access token")

\* len(state['raw_data'].get('data', [])) in the logging call, inside the try:
\* it raises TypeError when the data member is null.
LogLenRaises(body) == DictGet(body, "data", Lst(EmptyDict)).tag = "none"

\* A fetch_data that treats a response without records as a failure.
FetchFailedOnNoRecords(response) ==
    \/ response.kind # "json"
    \/ LogLenRaises(response.body)
    \/ DictGet(response.body, "data", Lst(EmptyDict)).val = <<>>

\* The except branch is taken.
FetchFailed(response) ==
    response.kind # "json" \/ LogLenRaises(response.body)

FetchException(response) ==
    IF response.kind # "json" THEN response.exc
    ELSE "object of type 'NoneType' has no len()"

\* An except branch that swallows the exception.
FetchErrorSwallowed(response) == PyNone

\* state["error"] = f"Data fetch failed: {str(e)}"
FetchError(response) == Str("Data fetch failed: " \o FetchException(response))

FetchData ==
    /\ pc = "fetch_data"
    /\ IF FetchSkips(error, access_token)
       THEN /\ error' = FetchGuardError(error)
            /\ raw_data' = EmptyDict
            /\ UNCHANGED <<calls, fetch_response>>
       ELSE \E response \in FetchResponses :
            /\ fetch_response' = response
            /\ calls' = [calls EXCEPT !.crm = @ + 1]
            /\ IF FetchFailed(response)
               THEN /\ error' = FetchError(response)
                    /\ raw_data' = EmptyDict
               ELSE /\ raw_data' = response.body
                    /\ error' = PyNone
    /\ pc' = Edge("fetch_data")
    /\ entered' = Append(entered, "fetch_data")
    /\ UNCHANGED session
    /\ UNCHANGED <<access_token, classified_data, insights,
                   token_response, llm_response, classified_summary>>

\* ---------------------------------------------------------------- classify_data
\* raw_data = state["raw_data"].get("data", [])
RawRecords(rd) == DictGet(rd, "data", Lst(EmptyDict)).val

\* lead_source = lead.get("Lead_Source", "Unknown")
LeadSource(lead) == DictGet(lead, "Lead_Source", Str("Unknown"))

\* A classifier that restarts the group at every lead.
AppendLeadRestarts(group, lead) == <<lead>>

\* A classifier that puts the newest lead first.
AppendLeadInFront(group, lead) == <<lead>> \o group

\* classified[lead_source].append(lead)
AppendLead(group, lead) == Append(group, lead)

\* One iteration of the loop over raw_data.
ClassifyStep(classified, lead) ==
    LET lead_source == LeadSource(lead)
        started == IF HasKey(classified, lead_source) THEN classified
                   ELSE Put(classified, lead_source, EmptyDict)
    IN  Put(started, lead_source, AppendLead(Lookup(started, lead_source), lead))

RECURSIVE ClassifyFrom(_, _)
ClassifyFrom(classified, leads) ==
    IF leads = <<>> THEN classified
    ELSE ClassifyFrom(ClassifyStep(classified, Head(leads)), Tail(leads))

Classify(leads) == ClassifyFrom(EmptyDict, leads)

\* A stage that never short-circuits.
StageNeverSkips(err) == FALSE

\* if state.get("error"): return state
StageSkips(err) == Truthy(err)

ClassifyData ==
    /\ pc = "classify_data"
    /\ IF StageSkips(error)
       THEN UNCHANGED classified_data
       ELSE classified_data' = Classify(RawRecords(raw_data))
    /\ pc' = Edge("classify_data")
    /\ entered' = Append(entered, "classify_data")
    /\ UNCHANGED session
    /\ UNCHANGED <<access_token, raw_data, insights, error, env>>

\* ---------------------------------------------------------------- generate_insights
\* counts[value] = counts.get(value, 0) + 1
CountUp(counts, value) ==
    Put(counts, value, (IF HasKey(counts, value) THEN Lookup(counts, value) ELSE 0) + 1)

\* status = lead.get("Lead_Status", "None")
LeadStatus(lead) == DictGet(lead, "Lead_Status", Str("None"))

\* disposition = lead.get("Disposition", "None")
LeadDisposition(lead) == DictGet(lead, "Disposition", Str("None"))

\* if lead.get(field): the_set.add(lead[field])
AddIfPresent(the_set, lead, field) ==
    IF Truthy(DictGet(lead, field, PyNone)) THEN the_set \cup {lead[field]} ELSE the_set

\* classified_summary[source] = {"count": len(leads), ...empty maps and sets...}
NewSummary(leads) ==
    [count |-> Len(leads), status_counts |-> EmptyDict,
     disposition_counts |-> EmptyDict, campaigns |-> {}, adsets |-> {},
     agencies |-> {}, products |-> {}]

\* One iteration of the inner loop over the leads of a source.
SummaryStep(summary, lead) ==
    [summary EXCEPT
        !.status_counts = CountUp(@, LeadStatus(lead)),
        !.disposition_counts = CountUp(@, LeadDisposition(lead)),
        !.campaigns = AddIfPresent(@, lead, "Campaign"),
        !.adsets = AddIfPresent(@, lead, "Adset_Name"),
        !.agencies = AddIfPresent(@, lead, "Agency"),
        !.products = AddIfPresent(@, lead, "Product")]

RECURSIVE SummaryFrom(_, _)
SummaryFrom(summary, leads) ==
    IF leads = <<>> THEN summary
    ELSE SummaryFrom(SummaryStep(summary, Head(leads)), Tail(leads))

SourceSummary(leads) == SummaryFrom(NewSummary(leads), leads)

\* The outer loop: for source, leads in classified_data.items()
RECURSIVE SummarizeFrom(_, _)
SummarizeFrom(summary, classified) ==
    IF classified = <<>> THEN summary
    ELSE SummarizeFrom(Put(summary, Head(classified).k, SourceSummary(Head(classified).v)),
                       Tail(classified))

Summarize(classified) == SummarizeFrom(EmptyDict, classified)

\* list(a_set): some enumeration of the set, in an order the code does not fix.
ListsOf(S) ==
    {l \in [1..Cardinality(S) -> S] : \A i, j \in 1..Cardinality(S) : i # j => l[i] # l[j]}

\* The summaries the set-to-list conversion of one source can give.
Listed(summary) ==
    {[summary EXCEPT !.campaigns = c, !.adsets = a, !.agencies = g, !.products = p] :
        c \in ListsOf(summary.campaigns), a \in ListsOf(summary.adsets),
        g \in ListsOf(summary.agencies), p \in ListsOf(summary.products)}

\* The second loop: for source in classified_summary
RECURSIVE Serializable(_)
Serializable(summary) ==
    IF summary = <<>> THEN {<<>>}
    ELSE {<<[k |-> Head(summary).k, v |-> v]>> \o rest :
            v \in Listed(Head(summary).v), rest \in Serializable(Tail(summary))}

\* insights = llm.invoke(...); state["insights"] = insights.content
\* The call is not guarded: an exception leaves generate_insights, the graph
\* and run_marketing_agent.
GenerateInsights ==
    /\ pc = "generate_insights"
    /\ IF StageSkips(error)
       THEN /\ pc' = Edge("generate_insights")
            /\ UNCHANGED <<insights, calls, llm_response, classified_summary>>
       ELSE \E summary \in Serializable(Summarize(classified_data)),
               response \in LlmResponses :
            /\ classified_summary' = Lst(summary)
            /\ calls' = [calls EXCEPT !.llm = @ + 1]
            /\ llm_response' = response
            /\ IF response.kind = "raise"
               THEN /\ pc' = "raised"
                    /\ UNCHANGED insights
               ELSE /\ pc' = Edge("generate_insights")
                    /\ insights' = response.content
    /\ entered' = Append(entered, "generate_insights")
    /\ UNCHANGED session
    /\ UNCHANGED <<access_token, raw_data, classified_data, error,
                   token_response, fetch_response>>

\* ---------------------------------------------------------------- consumers
\* The final state run_marketing_agent returns (graph.invoke's result).
Result ==
    [tag |-> "dict",
     val |-> [access_token |-> access_token, raw_data |-> raw_data,
              classified_data |-> classified_data, insights |-> insights,
              error |-> error]]

\* Outputs are recorded by kind, in the order they are put out:
\*   CLI        "error", "insights", "workflow_failed"
\*   dashboard  "success", "analysis_failed", "elapsed", "error", "metrics",
\*              "overview", "charts", "campaigns", "raw_data", "insights",
\*              the "no_..." warnings, and "welcome".
\* The page header and the sidebar, which every script run renders, are left out.

\* main.py's __main__ block calls run_marketing_agent.
CliMain ==
    /\ pc = "idle"
    /\ consumer' = "cli"
    /\ shown' = <<>>
    /\ StartRun
    /\ UNCHANGED <<analysis_result, analysis_time>>

\* if result["error"]: print(f"Error: ...") else: print(result["insights"])
CliOutput(err) == IF Truthy(err) THEN <<"error">> ELSE <<"insights">>

\* The rest of the __main__ block: print the result, or the escaped exception.
CliReport ==
    /\ consumer = "cli"
    /\ pc \in {"done", "raised"}
    /\ shown' = IF pc = "raised" THEN <<"workflow_failed">> ELSE CliOutput(error)
    /\ pc' = "shown"
    /\ UNCHANGED <<state, env, entered, consumer, analysis_result, analysis_time>>

\* end_time - start_time: 0 when the clock did not advance, else positive.
ElapsedTimes == {[tag |-> "float", val |-> 0], [tag |-> "float", val |-> 1]}

\* if st.session_state.analysis_time:
TimeShown(elapsed) ==
    IF elapsed.tag = "float" /\ elapsed.val # 0 THEN <<"elapsed">> ELSE <<>>

\* display_metrics and the five tabs of main(), for a result without error.
ResultViews(result) ==
    <<"key_metrics">>
    \o (IF result.classified_data # EmptyDict
        THEN <<"metrics", "overview", "charts", "campaigns">>
        ELSE <<"no_data_warning", "no_campaign_warning">>)
    \o (IF result.raw_data # EmptyDict /\ "data" \in DOMAIN result.raw_data
        THEN <<"raw_data">> ELSE <<"no_raw_data_warning">>)
    \o (IF result.insights # "" THEN <<"insights">> ELSE <<"no_insights_warning">>)

\* if result.get("error"): st.error(...); return
ErrorOrViews(result) ==
    IF Truthy(result.error) THEN <<"error">> ELSE ResultViews(result)

\* "Display results if available": the part of main() after the button block.
Display(stored, elapsed) ==
    IF stored = PyNone THEN <<"welcome">>
    ELSE TimeShown(elapsed) \o ErrorOrViews(stored.val)

\* st.success(...) right after the result is stored, whatever the result holds.
SuccessBanner(result) == <<"success">>

\* A browser session opens the page: main() runs with the button not pressed
\* and an empty session state.
DashboardLoad ==
    /\ pc = "idle"
    /\ consumer' = "dashboard"
    /\ analysis_result' = PyNone
    /\ analysis_time' = PyNone
    /\ shown' = Display(PyNone, PyNone)
    /\ pc' = "shown"
    /\ UNCHANGED <<state, env, entered>>

\* "Run Marketing Analysis" is pressed: main() reruns and calls
\* run_marketing_agent.  The model presses the button only while the session
\* holds no result, so that a stored result is always that of the latest run.
ButtonPressed ==
    /\ consumer = "dashboard"
    /\ pc = "shown"
    /\ analysis_result = PyNone
    /\ shown' = <<>>
    /\ StartRun
    /\ UNCHANGED <<consumer, analysis_result, analysis_time>>

\* The rest of that script run: store the result and report success, or report
\* the escaped exception; then display what the session holds.
DashboardShow ==
    /\ consumer = "dashboard"
    /\ pc \in {"done", "raised"}
    /\ IF pc = "done"
       THEN \E elapsed \in ElapsedTimes :
            /\ analysis_result' = Result
            /\ analysis_time' = elapsed
            /\ shown' = SuccessBanner(Result.val) \o Display(Result, elapsed)
       ELSE /\ UNCHANGED <<analysis_result, analysis_time>>
            /\ shown' = <<"analysis_failed">> \o Display(analysis_result, analysis_time)
    /\ pc' = "shown"
    /\ UNCHANGED <<state, env, entered, consumer>>

\* Any other interaction reruns main() with the button not pressed.
DashboardRerun ==
    /\ consumer = "dashboard"
    /\ pc = "shown"
    /\ shown' = Display(analysis_result, analysis_time)
    /\ UNCHANGED <<pc, state, env, entered, consumer, analysis_result, analysis_time>>

\* ---------------------------------------------------------------- the graph
Next ==
    \/ RunMarketingAgent
    \/ RefreshToken
    \/ FetchData
    \/ ClassifyData
    \/ GenerateInsights

Spec == Init /\ [][Next]_vars

\* The pipeline as its two consumers run it.
NextConsumer ==
    \/ CliMain
    \/ CliReport
    \/ DashboardLoad
    \/ ButtonPressed
    \/ DashboardShow
    \/ DashboardRerun
    \/ RefreshToken
    \/ FetchData
    \/ ClassifyData
    \/ GenerateInsights

SpecConsumer == Init /\ [][NextConsumer]_vars

\* ---------------------------------------------------------------- properties
AfterRefresh == {"fetch_data", "classify_data", "generate_insights", "done", "raised"}

AfterFetch == {"classify_data", "generate_insights", "done", "raised"}

AfterClassify == {"generate_insights", "done", "raised"}

Finished == {"done", "raised"}

\* C1: once a stage has returned with error non-null, every later stage of
\* the run leaves error equal to that same message (only the start of a fresh
\* run resets it).
C1_ErrorIsSticky ==
    [][(error # PyNone /\ pc \in {"fetch_data", "classify_data", "generate_insights"})
          => error' = error]_vars

C1_Witness ==
    /\ pc = "done"
    /\ token_response.kind = "http_error"
    /\ error = Str("Token refresh failed: 401 Client Error")

\* C2: once error is set, a later stage issues no outbound call and leaves
\* raw_data, classified_data and insights at their empty defaults.
C2_ErrorShortCircuits ==
    [][(error # PyNone /\ pc \in {"fetch_data", "classify_data", "generate_insights"})
          => /\ calls' = calls
             /\ raw_data' = EmptyDict
             /\ classified_data' = EmptyDict
             /\ insights' = ""]_vars

C2_Witness ==
    /\ pc = "done"
    /\ error # PyNone
    /\ calls = [token |-> 1, crm |-> 1, llm |-> 0]
    /\ raw_data = EmptyDict /\ classified_data = EmptyDict /\ insights = ""

\* C3 (as claimed): when the inference call raises, run_marketing_agent still
\* returns a final state, with error set and insights empty.
C3_InferenceFailureCaptured ==
    llm_response.kind = "raise"
        => (pc = "done" /\ error # PyNone /\ insights = "")

\* C4 (as claimed): a returned final state has exactly one of error non-null
\* and insights non-empty, unless the fetched record set was empty.
C4_ErrorXorReport ==
    pc = "done"
        => \/ (error # PyNone) # (insights # "")
           \/ (RawRecords(raw_data) = <<>> /\ classified_data = EmptyDict)

CredentialExchangeFailed ==
    \/ token_response.kind \in {"fault", "http_error", "bad_json"}
    \/ /\ token_response.kind = "json"
       /\ ~Truthy(DictGet(token_response.body, "access_token", PyNone))

\* C5: if the credential exchange fails, or the record fetch fails with a
\* network fault or a non-2xx response, the final state has no records, no
\* groups, no report, and an error.
C5_FailureLeavesDefaults ==
    (pc \in Finished /\ (CredentialExchangeFailed
                          \/ fetch_response.kind \in {"fault", "http_error"}))
        => /\ pc = "done"
           /\ raw_data = EmptyDict
           /\ RawRecords(raw_data) = <<>>
           /\ classified_data = EmptyDict
           /\ insights = ""
           /\ error # PyNone

C5_Witness ==
    /\ pc = "done"
    /\ ~CredentialExchangeFailed
    /\ fetch_response.kind = "http_error"

ZeroRecordsFetched ==
    /\ fetch_response.kind = "json"
    /\ fetch_response.body \in {EmptyDict, [data |-> Lst(<<>>)]}

\* C6: when the fetch succeeds with an empty or absent data list, classified
\* is empty, error stays null, and generate_insights builds an empty summary
\* and issues the inference call.
C6_EmptyFetchStillReports ==
    ZeroRecordsFetched
        => /\ error = PyNone
           /\ classified_data = EmptyDict
           /\ pc \in Finished => /\ calls.llm = 1
                                 /\ classified_summary = Lst(EmptyDict)

C6_Witness ==
    /\ pc = "done"
    /\ fetch_response = Json([data |-> Lst(<<>>)])
    /\ calls.llm = 1
    /\ insights = "# Report"

\* classify_data has run on the fetched records.
Classified == pc \in AfterClassify /\ error = PyNone

RECURSIVE TotalLen(_)
TotalLen(d) == IF d = <<>> THEN 0 ELSE Len(Head(d).v) + TotalLen(Tail(d))

Occurrences(leads, lead) == Cardinality({n \in 1..Len(leads) : leads[n] = lead})

RECURSIVE GroupOccurrences(_, _)
GroupOccurrences(d, lead) ==
    IF d = <<>> THEN 0
    ELSE Occurrences(Head(d).v, lead) + GroupOccurrences(Tail(d), lead)

\* C7: classified_data is a strict partition of the fetched records: keys are
\* distinct, no group is empty, a lead sits under the key its Lead_Source
\* field gives, the group lengths sum to the number of records, and every
\* lead occurs in the groups as often as in the records.
C7_StrictPartition ==
    Classified =>
        LET R == RawRecords(raw_data)
            cd == classified_data
        IN  /\ \A i, j \in 1..Len(cd) : cd[i].k = cd[j].k => i = j
            /\ \A i \in 1..Len(cd) : cd[i].v # <<>>
            /\ \A i \in 1..Len(cd) : \A n \in 1..Len(cd[i].v) :
                    IF "Lead_Source" \in DOMAIN cd[i].v[n]
                    THEN cd[i].k = cd[i].v[n]["Lead_Source"]
                    ELSE cd[i].k = Str("Unknown")
            /\ TotalLen(cd) = Len(R)
            /\ \A lead \in Leads : GroupOccurrences(cd, lead) = Occurrences(R, lead)

C7_Witness ==
    /\ pc = "done"
    /\ error = PyNone
    /\ Len(RawRecords(raw_data)) = 3
    /\ Len(classified_data) = 2
    /\ RawRecords(raw_data)[1] = RawRecords(raw_data)[3]

\* C8 (as claimed): a lead whose Lead_Source is absent or null sits in the
\* group keyed "Unknown".
C8_MissingSourceIsUnknown ==
    Classified =>
        \A i \in 1..Len(classified_data) : \A n \in 1..Len(classified_data[i].v) :
            LET lead == classified_data[i].v[n]
            IN  ("Lead_Source" \notin DOMAIN lead \/ lead["Lead_Source"] = PyNone)
                    => classified_data[i].k = Str("Unknown")

\* The leads of R whose group key is key, in the order of R.
LeadsWithSource(R, key) ==
    LET HasSource(lead) == LeadSource(lead) = key
    IN  SelectSeq(R, HasSource)

\* C9: the grouping is a function of the record list that keeps the fetch
\* order: the keys are the lead sources occurring in R, and each group is
\* exactly the subsequence of R with that lead source.
C9_OrderPreserving ==
    Classified =>
        LET R == RawRecords(raw_data)
            cd == classified_data
        IN  /\ Keys(cd) = {LeadSource(R[n]) : n \in 1..Len(R)}
            /\ \A i \in 1..Len(cd) : cd[i].v = LeadsWithSource(R, cd[i].k)

C9_Witness ==
    /\ pc = "done"
    /\ error = PyNone
    /\ Len(classified_data) = 2
    /\ \E i \in 1..2 : /\ Len(classified_data[i].v) = 2
                       /\ classified_data[i].v[1] # classified_data[i].v[2]
                       /\ classified_data[i].v[1] = RawRecords(raw_data)[1]
                       /\ classified_data[i].v[2] = RawRecords(raw_data)[3]

RefreshSucceeded ==
    /\ token_response.kind = "json"
    /\ "access_token" \in DOMAIN token_response.body
    /\ access_token = token_response.body["access_token"]
    /\ access_token.tag = "str"
    /\ error = PyNone

RefreshFailed ==
    /\ Truthy(error)
    /\ access_token = PyNone

\* C10 (as claimed): when refresh_token has returned, exactly one holds:
\* access_token is the returned token string and error is null, or error is a
\* non-empty message and access_token is null.
C10_RefreshOutcome ==
    pc = "fetch_data" => (RefreshSucceeded # RefreshFailed)

\* generate_insights has built its summary.
Summarized == classified_summary # PyNone

\* The label a lead is counted under when a missing value (absent or null)
\* is labelled "None".
LabelOf(lead, field) ==
    IF field \in DOMAIN lead /\ lead[field] # PyNone THEN lead[field] ELSE Str("None")

Labelled(leads, field, label) ==
    Cardinality({n \in 1..Len(leads) : LabelOf(leads[n], field) = label})

RECURSIVE TotalCount(_)
TotalCount(counts) ==
    IF counts = <<>> THEN 0 ELSE Head(counts).v + TotalCount(Tail(counts))

\* counts is the frequency map of the labels of field over leads.
IsFrequencyMap(counts, leads, field) ==
    /\ \A i, j \in 1..Len(counts) : counts[i].k = counts[j].k => i = j
    /\ \A i \in 1..Len(counts) : counts[i].v = Labelled(leads, field, counts[i].k)
    /\ \A n \in 1..Len(leads) : HasKey(counts, LabelOf(leads[n], field))
    /\ TotalCount(counts) = Len(leads)

\* C11 (as claimed): the summary of every channel has count equal to the size
\* of the channel's group, and status_counts / disposition_counts are the
\* frequency maps of the group's statuses / dispositions, summing to count,
\* with every lead that has no status (no disposition) counted under "None".
C11_SummaryCounts ==
    Summarized =>
        LET summary == classified_summary.val
        IN  /\ Keys(summary) = Keys(classified_data)
            /\ \A i \in 1..Len(summary) :
                LET leads == Lookup(classified_data, summary[i].k)
                IN  /\ summary[i].v.count = Len(leads)
                    /\ IsFrequencyMap(summary[i].v.status_counts, leads, "Lead_Status")
                    /\ IsFrequencyMap(summary[i].v.disposition_counts, leads, "Disposition")

Pipeline == <<"refresh_token", "fetch_data", "classify_data", "generate_insights">>

\* C12: in every run the nodes are entered in the order refresh_token,
\* fetch_data, classify_data, generate_insights, each at most once and each
\* right after its predecessor returned, the node to run next is the first one
\* not yet entered, a finished run has entered all four, and each outbound
\* call is issued at most once.
C12_StrictlyForward ==
    /\ Len(entered) <= Len(Pipeline)
    /\ \A i \in 1..Len(entered) : entered[i] = Pipeline[i]
    /\ pc \notin {"idle"} \cup Finished
          => (Len(entered) < Len(Pipeline) /\ pc = Pipeline[Len(entered) + 1])
    /\ pc \in Finished => entered = Pipeline
    /\ calls.token <= 1 /\ calls.crm <= 1 /\ calls.llm <= 1

C12_Witness ==
    /\ pc = "done"
    /\ entered = Pipeline
    /\ calls = [token |-> 1, crm |-> 1, llm |-> 1]

\* The run the consumer reports on returned a final state.
RunReturned == entered = Pipeline /\ llm_response.kind # "raise"

\* C13 (as claimed): when the final state a run returned has error set, the
\* consumer shows the error message and nothing else for that run.
C13_OnlyTheErrorIsShown ==
    (pc = "shown" /\ RunReturned /\ error # PyNone) => shown = <<"error">>

====
